---- MODULE Spec2Model ----
\* Problem Service (src/src/index.ts): problems are created, assigned to the
\* least-loaded available technician, moved through their statuses and
\* deleted.  The Firestore collections "users" and "problems" are the only
\* state shared by the handlers; every await of a handler is a point where
\* other handlers and the creation trigger may run.
EXTENDS Integers, FiniteSets, Sequences, TLC

\* ---------------------------------------------------------------- bounds
NumTech == 4            \* user documents in the "users" collection
NumReq == 2             \* HTTP requests that may be in flight together
MaxServed == 4          \* HTTP requests the service accepts
MaxClock == 2           \* distinct readings of the server clock

\* ------------------------------------------------------------- constants
Threshold == 3          \* index.ts:91  ... + 1) < 3
Infinity == 99          \* index.ts:56  let minWorkload = Infinity
Null == 0               \* null / undefined reference (technician, problem)
NoTime == 0             \* solvedAt absent
NotAvailable == -1      \* "N/A"                       (index.ts:118)
NoTechnician == -2      \* "no available technician"   (index.ts:117)

Tech == 1..NumTech
ProblemIds == 1..MaxServed
Req == 1..NumReq
\* req.body.type is free text: two specialities that technicians have and
\* one that none has
Types == {"plumbing", "electrical", "painting"}
Statuses == {"waiting", "progressing", "solved"}

\* The type of a predefined problem is stored and listed, but no handler
\* reads it and the trigger returns before it does (index.ts:306), so one
\* value stands for all.
PredefinedTypes == {"plumbing"}

\* The specialities over which requests can race for a technician: a request
\* for a speciality no technician has reads and writes no user document.
RacedTypes == {"plumbing", "electrical"}

\* The user documents the user-management service has registered: role,
\* speciality and email are never written by this service.  Of every four
\* users two are plumbing technicians (one without an email address), one is
\* an electrical technician and one is a chef.
Profile(t) ==
  CASE t % 4 = 1 -> [role |-> "technicien", speciality |-> "plumbing",   email |-> TRUE]
    [] t % 4 = 2 -> [role |-> "technicien", speciality |-> "plumbing",   email |-> FALSE]
    [] t % 4 = 3 -> [role |-> "technicien", speciality |-> "electrical", email |-> TRUE]
    [] OTHER     -> [role |-> "chef",       speciality |-> "plumbing",   email |-> TRUE]

VARIABLES
  users,      \* collection "users":    Tech -> document
  problems,   \* collection "problems": existing id -> document
  nextId,     \* the next id the store hands out on add()
  now,        \* the server clock behind FieldValue.serverTimestamp()
  trig,       \* the creation trigger's run for each problem
  req,        \* each request in flight: its handler position and locals
  last,       \* the request the last step answered: what was asked and how
              \* its calls went (NoRequest when the step answered none)
  resp,       \* the response the last step sent
  served      \* requests accepted so far

vars == <<users, problems, nextId, now, trig, req, last, resp, served>>

\* ------------------------------------------------------------ documents
NewUser(p) ==
  [role |-> p.role, speciality |-> p.speciality, email |-> p.email,
   isAvailable |-> TRUE, allProblems |-> {}, currentProblem |-> Null]

Count(u) == Cardinality(u.allProblems)

\* index.ts:68-76 and 134-142
NewProblem(type, predefined, tech) ==
  [type |-> type, status |-> "waiting", isPredefined |-> predefined,
   assignedTechnician |-> tech, solvedAt |-> NoTime]

\* ------------------------------------------------- POST /problems: select
\* a query without the isAvailable filter
CandidatesAnyAvailability(us, type) ==
  { t \in Tech : us[t].role = "technicien" /\ us[t].speciality = type }

\* index.ts:49-53: the snapshot, in document-id order
Candidates(us, type) ==
  { t \in Tech : /\ us[t].role = "technicien"
                 /\ us[t].speciality = type
                 /\ us[t].isAvailable = TRUE }

\* a selection that lets a later document of equal workload replace the
\* one picked
LessWorkloadOrEqual(c, m) == c <= m

\* index.ts:61: currentProblems < minWorkload
LessWorkload(c, m) == c < m

\* index.ts:59-65: forEach over the snapshot from document t on, carrying
\* <<assignedTechnicianId, minWorkload>>
RECURSIVE SelectFrom(_, _, _, _)
SelectFrom(us, cands, t, acc) ==
  IF t > NumTech THEN acc
  ELSE IF t \in cands /\ LessWorkload(Count(us[t]), acc[2])
       THEN SelectFrom(us, cands, t + 1, <<t, Count(us[t])>>)
       ELSE SelectFrom(us, cands, t + 1, acc)

Select(us, type) == SelectFrom(us, Candidates(us, type), 1, <<Null, Infinity>>)

\* an update that writes the array instead of adding to it
TechUpdateOverwrite(u, pid, readCount) ==
  [u EXCEPT !.allProblems = {pid},
            !.currentProblem = pid,
            !.isAvailable = (readCount + 1) < Threshold]

\* index.ts:87-94: the update written to the technician's document;
\* readCount is techData.allProblems.length as read at line 84
TechUpdate(u, pid, readCount) ==
  [u EXCEPT !.allProblems = @ \cup {pid},
            !.currentProblem = pid,
            !.isAvailable = (readCount + 1) < Threshold]

\* a release that also takes the current problem off the technician's list
ReleaseClears(u) ==
  [u EXCEPT !.isAvailable = TRUE, !.currentProblem = Null,
            !.allProblems = u.allProblems \ {u.currentProblem}]

\* a release that clears the current problem only
ReleaseKeepsAvailability(u) == [u EXCEPT !.currentProblem = Null]

\* index.ts:258-261: the body sent to PUT /users/:id/availability, applied to
\* the technician's document by the user-management service
Release(u) == [u EXCEPT !.isAvailable = TRUE, !.currentProblem = Null]

\* a handler that undoes the technician update when the notification fails
NotifyRollsBack(us, tech, pid, outcome) ==
  IF outcome = "failed"
  THEN [us EXCEPT ![tech] = [@ EXCEPT !.allProblems = @ \ {pid},
                                      !.currentProblem = Null,
                                      !.isAvailable = TRUE]]
  ELSE us

\* index.ts:98-112: the notification call and its catch, which logs the
\* error and writes nothing
NotifyCatch(us, tech, pid, outcome) == us

\* ------------------------------------------------------------- requests
IdleReq ==
  [pc |-> "idle", type |-> "", pid |-> Null, sel |-> Null, minW |-> Infinity,
   techCount |-> 0, techEmail |-> FALSE]

\* req.params.id, req.body.status, the technician the handler acted on, and
\* the outcome of the notification call and of the user-management call
NoRequest ==
  [kind |-> "none", pid |-> Null, status |-> "", sel |-> Null,
   email |-> "none", peer |-> "none"]

NoResp ==
  [code |-> 0, id |-> Null, assignedTo |-> Null, currentWorkload |-> NotAvailable,
   message |-> "", technicianUpdated |-> FALSE]

\* index.ts:293-303: a run of the creation trigger: its position, the created
\* document's snapshot (event.data) and the technician its query returned
NoTrigger == [pc |-> "none", type |-> "", isPredefined |-> FALSE, tech |-> Null]
Fired(type, predefined) ==
  [pc |-> "fired", type |-> type, isPredefined |-> predefined, tech |-> Null]

Free(r) == req[r].pc = "idle"

\* a new request is numbered with the lowest number no request in flight has
Opens(r) == Free(r) /\ \A o \in Req : o < r => ~Free(o)

\* the step answers no request
Silent == last' = NoRequest /\ resp' = NoResp

\* a request is accepted
Accept == served < MaxServed /\ served' = served + 1

Init ==
  /\ users = [t \in Tech |-> NewUser(Profile(t))]
  /\ problems = << >>
  /\ nextId = 1
  /\ now = 1
  /\ trig = [p \in ProblemIds |-> NoTrigger]
  /\ req = [r \in Req |-> IdleReq]
  /\ last = NoRequest
  /\ resp = NoResp
  /\ served = 0

\* index.ts:44-65: query the candidates and pick the least loaded
PostQuery(r) ==
  /\ Opens(r)
  /\ Accept
  /\ \E type \in Types :
       LET s == Select(users, type) IN
       req' = [req EXCEPT ![r] = [IdleReq EXCEPT !.pc = "queried", !.type = type,
                                                 !.sel = s[1], !.minW = s[2]]]
  /\ Silent
  /\ UNCHANGED <<users, problems, nextId, now, trig>>

\* index.ts:115-122
PostResponse(pid, sel, minW) ==
  [code |-> 201, id |-> pid,
   assignedTo |-> IF sel # Null THEN sel ELSE NoTechnician,
   currentWorkload |-> IF minW # Infinity THEN minW ELSE NotAvailable,
   message |-> IF sel # Null THEN "Assigned to technician with N existing problems"
               ELSE "No available technicians found",
   technicianUpdated |-> FALSE]

\* index.ts:67-82: add the problem document (the store fires the creation
\* trigger); with no technician selected the handler answers at once
PostAdd(r) ==
  /\ req[r].pc = "queried"
  /\ LET pid == nextId
         q == req[r] IN
       /\ problems' = (pid :> NewProblem(q.type, FALSE, q.sel)) @@ problems
       /\ trig' = [trig EXCEPT ![pid] = Fired(q.type, FALSE)]
       /\ nextId' = nextId + 1
       /\ IF q.sel # Null
          THEN /\ req' = [req EXCEPT ![r].pc = "added", ![r].pid = pid]
               /\ Silent
          ELSE /\ req' = [req EXCEPT ![r] = IdleReq]
               /\ last' = [NoRequest EXCEPT !.kind = "post", !.pid = pid]
               /\ resp' = PostResponse(pid, q.sel, q.minW)
  /\ UNCHANGED <<users, now, served>>

\* index.ts:83-85: read the technician's document
PostTechGet(r) ==
  /\ req[r].pc = "added"
  /\ req' = [req EXCEPT ![r].pc = "read",
                        ![r].techCount = Count(users[req[r].sel]),
                        ![r].techEmail = users[req[r].sel].email]
  /\ Silent
  /\ UNCHANGED <<users, problems, nextId, now, trig, served>>

\* index.ts:87-94: update the technician's document
PostTechUpdate(r) ==
  /\ req[r].pc = "read"
  /\ users' = [users EXCEPT ![req[r].sel] = TechUpdate(@, req[r].pid, req[r].techCount)]
  /\ req' = [req EXCEPT ![r].pc = "updated", ![r].techCount = 0]
  /\ Silent
  /\ UNCHANGED <<problems, nextId, now, trig, served>>

\* index.ts:96-122: the notification call, whose failure is caught, and the
\* response
PostNotify(r) ==
  /\ req[r].pc = "updated"
  /\ \E sent \in BOOLEAN :
       LET q == req[r]
           outcome == IF ~q.techEmail THEN "none" ELSE IF sent THEN "sent" ELSE "failed" IN
       /\ req' = [req EXCEPT ![r] = IdleReq]
       /\ last' = [NoRequest EXCEPT !.kind = "post", !.pid = q.pid, !.sel = q.sel,
                                     !.email = outcome]
       /\ users' = NotifyCatch(users, q.sel, q.pid, outcome)
       /\ resp' = PostResponse(q.pid, q.sel, q.minW)
  /\ UNCHANGED <<problems, nextId, now, trig, served>>

\* index.ts:130-156: POST /problems/predefined
PostPredefined(r) ==
  /\ Opens(r)
  /\ Accept
  /\ \E type \in PredefinedTypes :
       /\ problems' = (nextId :> NewProblem(type, TRUE, Null)) @@ problems
       /\ trig' = [trig EXCEPT ![nextId] = Fired(type, TRUE)]
  /\ nextId' = nextId + 1
  /\ last' = [NoRequest EXCEPT !.kind = "predefined", !.pid = nextId]
  /\ resp' = [NoResp EXCEPT !.code = 201, !.id = nextId,
                            !.message = "Predefined problem created successfully"]
  /\ UNCHANGED <<users, now, req>>

\* index.ts:159-163 and 173-177: the two listings
PredefinedListing == { p \in DOMAIN problems : problems[p].isPredefined = TRUE }
RegularListing == { p \in DOMAIN problems : problems[p].isPredefined = FALSE }

\* an update that leaves a solved problem as it is
UpdateDataLegal(p, status, time) ==
  IF p.status = "solved" THEN p
  ELSE IF status = "solved"
       THEN [p EXCEPT !.status = status, !.solvedAt = time]
       ELSE [p EXCEPT !.status = status]

\* index.ts:245-248: updateData
UpdateData(p, status, time) ==
  IF status = "solved"
  THEN [p EXCEPT !.status = status, !.solvedAt = time]
  ELSE [p EXCEPT !.status = status]

\* index.ts:247: FieldValue.serverTimestamp() is the server clock at the
\* write; since the last stamp the clock has stood still or moved on
ServerTimestamps(status) ==
  IF status = "solved" THEN { t \in {now, now + 1} : t <= MaxClock } ELSE {now}

\* index.ts:268-271
PutResponse(status, tech) ==
  [NoResp EXCEPT !.code = 200, !.message = "Problem status updated successfully",
                 !.technicianUpdated = (status = "solved" /\ tech # Null)]

\* index.ts:272-275
PutError == [NoResp EXCEPT !.code = 500, !.message = "Failed to update problem"]

\* a handler that writes the technician's document whatever the call did
PeerEffectAlways(us, tech, outcome) == [us EXCEPT ![tech] = Release(@)]

\* index.ts:253-265: the technician is read and the user-management service
\* called; when either throws, the catch logs it and nothing is written
PeerEffect(us, tech, outcome) ==
  IF outcome = "ok" THEN [us EXCEPT ![tech] = Release(@)] ELSE us

\* index.ts:235-276: PUT /problems/:id.  The handler reads the problem and
\* updates it, where update() of a missing document rejects and the outer
\* catch answers 500; for status solved on an assigned problem it reads the
\* technician and calls the user-management service, where either may fail
\* and the failure is caught; then it answers.  The handler writes status
\* and solvedAt only and the trigger assignedTechnician only, so a trigger
\* run between two awaits of the handler leaves the same documents as one
\* after it.
Put(r) ==
  /\ Opens(r)
  /\ Accept
  /\ \E id \in ProblemIds, status \in Statuses,
        outcome \in {"ok", "readFailed", "callFailed"} :
       LET tech == IF id \in DOMAIN problems
                   THEN problems[id].assignedTechnician ELSE Null
           releases == status = "solved" /\ tech # Null IN
       IF id \notin DOMAIN problems
       THEN /\ outcome = "ok"
            /\ UNCHANGED <<problems, now, users>>
            /\ last' = [NoRequest EXCEPT !.kind = "put", !.pid = id, !.status = status]
            /\ resp' = PutError
       ELSE /\ releases \/ outcome = "ok"
            /\ \E t \in ServerTimestamps(status) :
                 /\ now' = t
                 /\ problems' = [problems EXCEPT ![id] = UpdateData(@, status, t)]
            /\ users' = IF releases THEN PeerEffect(users, tech, outcome) ELSE users
            /\ last' = [NoRequest EXCEPT !.kind = "put", !.pid = id, !.status = status,
                          !.sel = tech, !.peer = IF releases THEN outcome ELSE "none"]
            /\ resp' = PutResponse(status, tech)
  /\ UNCHANGED <<nextId, trig, req>>

\* a handler that answers 404 for a problem that does not exist
DeleteChecked(r) ==
  /\ Opens(r)
  /\ Accept
  /\ \E id \in ProblemIds :
       /\ problems' = [p \in DOMAIN problems \ {id} |-> problems[p]]
       /\ last' = [NoRequest EXCEPT !.kind = "delete", !.pid = id]
       /\ resp' = IF id \in DOMAIN problems
                  THEN [NoResp EXCEPT !.code = 200, !.message = "Problem deleted successfully"]
                  ELSE [NoResp EXCEPT !.code = 404, !.message = "Problem not found"]
  /\ UNCHANGED <<users, nextId, now, trig, req>>

\* index.ts:280-288: DELETE /problems/:id; delete() of a missing document
\* succeeds
Delete(r) ==
  /\ Opens(r)
  /\ Accept
  /\ \E id \in ProblemIds :
       /\ problems' = [p \in DOMAIN problems \ {id} |-> problems[p]]
       /\ last' = [NoRequest EXCEPT !.kind = "delete", !.pid = id]
  /\ resp' = [NoResp EXCEPT !.code = 200, !.message = "Problem deleted successfully"]
  /\ UNCHANGED <<users, nextId, now, trig, req>>

\* a trigger query that asks for an available technician
FirstMatchAvailable(us, type) ==
  LET m == { t \in Tech : /\ us[t].role = "technicien"
                          /\ us[t].speciality = type
                          /\ us[t].isAvailable } IN
  IF m = {} THEN Null ELSE CHOOSE t \in m : \A o \in m : t <= o

\* a trigger query that asks for any technician
FirstTechnician(us, type) ==
  LET m == { t \in Tech : us[t].role = "technicien" } IN
  IF m = {} THEN Null ELSE CHOOSE t \in m : \A o \in m : t <= o

\* index.ts:316-321: where role, speciality; limit(1), in document-id order
FirstMatch(us, type) ==
  LET m == { t \in Tech : us[t].role = "technicien" /\ us[t].speciality = type } IN
  IF m = {} THEN Null ELSE CHOOSE t \in m : \A o \in m : t <= o

\* a trigger that skips no problem
SkipsNothing(predefined) == FALSE

\* index.ts:306: the trigger's test on the created document
SkipsTrigger(predefined) == predefined

\* index.ts:329-331: the field the trigger writes
TriggerWrite(p, t) == [p EXCEPT !.assignedTechnician = t]

\* index.ts:293-338: one run of the trigger.  It skips a predefined problem;
\* else it queries one technician of the problem's speciality (a query over
\* fields this service never writes) and writes it to the problem, where
\* update() of a document deleted meanwhile rejects and the catch logs it.
TriggerRun(p) ==
  /\ trig[p].pc = "fired"
  /\ LET t == FirstMatch(users, trig[p].type) IN
       /\ problems' = IF ~SkipsTrigger(trig[p].isPredefined) /\ t # Null
                         /\ p \in DOMAIN problems
                      THEN [problems EXCEPT ![p] = TriggerWrite(@, t)]
                      ELSE problems
       /\ trig' = [trig EXCEPT ![p] =
                    [@ EXCEPT !.pc = "done",
                              !.tech = IF SkipsTrigger(trig[p].isPredefined)
                                      THEN Null ELSE t]]
  /\ Silent
  /\ UNCHANGED <<users, nextId, now, req, served>>

\* the steps of one POST /problems request
PostStep(r) ==
  \/ PostQuery(r)
  \/ PostAdd(r)
  \/ PostTechGet(r)
  \/ PostTechUpdate(r)
  \/ PostNotify(r)

\* Requests served one after the other (each client awaits its response),
\* with the creation trigger running beside them.
Next ==
  \/ PostStep(1)
  \/ PostPredefined(1)
  \/ Put(1)
  \/ Delete(1)
  \/ \E p \in ProblemIds : TriggerRun(p)

Spec == Init /\ [][Next]_vars

\* POST /problems requests served concurrently: every await is a point where
\* another request's step may run.
NextRace ==
  \E r \in Req :
    /\ PostStep(r)
    /\ req'[r].pc # "idle" => req'[r].type \in RacedTypes

SpecRace == Init /\ [][NextRace]_vars

\* The same service when no store or collaborator call fails: no
\* notification call and no technician read or user-management call throws,
\* and no update() rejects with an answer of 500.
NextClean ==
  /\ Next
  /\ last'.email # "failed"
  /\ last'.peer \notin {"readFailed", "callFailed"}
  /\ resp'.code # 500

SpecClean == Init /\ [][NextClean]_vars
\* ------------------------------------------------------------------ claims
\* the technicians POST /problems may assign a problem of this type to
Qualified(type) ==
  { t \in Tech : /\ users[t].role = "technicien"
                 /\ users[t].speciality = type
                 /\ users[t].isAvailable }

\* request r runs the candidate query in this step
Queries(r) == Free(r) /\ req'[r].pc = "queried"

\* request r answers an assignment in this step
Answers(r) == req[r].pc = "updated" /\ req'[r].pc = "idle"

\* C1: POST /problems selects, among the technicians with role technicien,
\* the problem's speciality and isAvailable = true, one whose allProblems
\* count is the minimum over that set, the first in document order among
\* those at the minimum, and the response's currentWorkload is that minimum.
C1_SelectsLeastLoaded ==
  [][\A r \in Req :
       /\ Queries(r) /\ Qualified(req'[r].type) # {} =>
            LET q == Qualified(req'[r].type)
                s == req'[r].sel IN
            /\ s \in q
            /\ \A t \in q : Count(users[s]) <= Count(users[t])
            /\ \A t \in q : Count(users[t]) = Count(users[s]) => s <= t
            /\ req'[r].minW = Count(users[s])
       /\ Answers(r) =>
            /\ resp'.code = 201
            /\ resp'.assignedTo = req[r].sel
            /\ resp'.currentWorkload = req[r].minW]_vars

\* a request has just picked the second plumbing technician, who has no
\* problem, over the first, who has two
C1_Witness ==
  \E r \in Req :
    /\ req[r].pc = "queried"
    /\ req[r].type = "plumbing"
    /\ Qualified("plumbing") = {1, 2}
    /\ Count(users[1]) = 2
    /\ Count(users[2]) = 0
    /\ req[r].sel = 2
    /\ req[r].minW = 0

\* request r writes its update to the technician's document in this step
Updates(r) == req[r].pc = "read" /\ req'[r].pc = "updated"

\* C2: the technician update of POST /problems raises the technician's
\* allProblems count by exactly one, and the isAvailable it writes is false
\* exactly when the resulting count has reached 3.
C2_CountAndAvailability ==
  [][\A r \in Req :
       Updates(r) =>
         LET t == req[r].sel IN
         /\ Count(users'[t]) = Count(users[t]) + 1
         /\ users'[t].isAvailable = (Count(users'[t]) < Threshold)]_vars

\* no request is being served
Quiet == \A r \in Req : Free(r)

\* C3: whenever no request is in flight, every technician has
\* isAvailable = (number of ids in allProblems < 3).
C3_AvailabilityMatchesCount ==
  Quiet => \A t \in Tech : users[t].isAvailable = (Count(users[t]) < Threshold)

\* two requests have both written their assignment to the same technician,
\* whom both had picked at the same workload, so neither's query saw the
\* other's update
BothWrote(r1, r2) ==
  /\ r1 # r2
  /\ req[r1].pc = "updated"
  /\ req[r2].pc = "updated"
  /\ req[r1].sel = req[r2].sel
  /\ req[r1].minW = req[r2].minW

\* C4: two concurrent POST /problems requests that both ran the candidate
\* query before either updated the technician and both picked the same
\* technician both write their assignment: the technician holds both
\* problems, two more than the workload either request saw, which can pass
\* the capacity threshold of 3.
C4_BothAssignmentsWritten ==
  \A r1, r2 \in Req :
    BothWrote(r1, r2) =>
      /\ {req[r1].pid, req[r2].pid} \subseteq users[req[r1].sel].allProblems
      /\ Count(users[req[r1].sel]) >= req[r1].minW + 2

\* a technician picked twice at two problems holds four
C4_Witness ==
  \E r1, r2 \in Req :
    /\ BothWrote(r1, r2)
    /\ req[r1].minW = 2
    /\ Count(users[req[r1].sel]) = 4
    /\ Count(users[req[r1].sel]) > Threshold

\* every request in flight has written its technician update
AllWritten == \A r \in Req : req[r].pc \in {"idle", "updated"}

\* C5: once concurrent assignments to a technician have all completed, its
\* allProblems holds every problem they assigned and its isAvailable equals
\* (number of ids in allProblems < 3).
C5_NoLostUpdate ==
  AllWritten =>
    \A r \in Req :
      req[r].pc = "updated" =>
        /\ req[r].pid \in users[req[r].sel].allProblems
        /\ users[req[r].sel].isAvailable = (Count(users[req[r].sel]) < Threshold)

\* request r, which picked no technician, adds its problem and answers in
\* this step
AddsUnassigned(r) == req[r].pc = "queried" /\ req[r].sel = Null /\ req'[r].pc = "idle"

\* C6: when no technician has role technicien, the problem's speciality and
\* isAvailable = true, POST /problems picks none, creates the problem with
\* assignedTechnician null, status waiting and isPredefined false, changes
\* no technician record and answers 201 with 'no available technician' and
\* the message 'No available technicians found'.
C6_NoTechnicianStillCreates ==
  [][\A r \in Req :
       /\ Queries(r) /\ Qualified(req'[r].type) = {} =>
            /\ req'[r].sel = Null
            /\ users' = users
       /\ AddsUnassigned(r) =>
            /\ nextId \notin DOMAIN problems
            /\ DOMAIN problems' = DOMAIN problems \cup {nextId}
            /\ problems'[nextId].type = req[r].type
            /\ problems'[nextId].assignedTechnician = Null
            /\ problems'[nextId].status = "waiting"
            /\ problems'[nextId].isPredefined = FALSE
            /\ users' = users
            /\ resp'.code = 201
            /\ resp'.id = nextId
            /\ resp'.assignedTo = NoTechnician
            /\ resp'.currentWorkload = NotAvailable
            /\ resp'.message = "No available technicians found"]_vars

\* an electrical problem has just been created unassigned while the one
\* electrical technician is unavailable
C6_Witness ==
  /\ last.kind = "post"
  /\ resp.code = 201
  /\ resp.assignedTo = NoTechnician
  /\ resp.message = "No available technicians found"
  /\ resp.id \in DOMAIN problems
  /\ problems[resp.id].type = "electrical"
  /\ problems[resp.id].assignedTechnician = Null
  /\ users[3].role = "technicien"
  /\ users[3].speciality = "electrical"
  /\ ~users[3].isAvailable

\* how problem p was created, from the snapshot of its created document
ViaPredefined(p) == trig[p].pc # "none" /\ trig[p].isPredefined
ViaRegular(p) == trig[p].pc # "none" /\ ~trig[p].isPredefined

\* C7: a problem created via POST /problems/predefined has isPredefined true
\* and assignedTechnician null in every state, is in the predefined listing
\* and not in the regular one; a problem created via POST /problems is in
\* the regular listing and not in the predefined one.
C7_PredefinedNeverAssigned ==
  \A p \in DOMAIN problems :
    /\ ViaPredefined(p) =>
         /\ problems[p].isPredefined
         /\ problems[p].assignedTechnician = Null
         /\ p \in PredefinedListing
         /\ p \notin RegularListing
    /\ ViaRegular(p) =>
         /\ p \in RegularListing
         /\ p \notin PredefinedListing

\* the trigger has run on a solved predefined problem whose speciality has a
\* technician, beside a regular problem that is assigned
C7_Witness ==
  \E p, q \in DOMAIN problems :
    /\ ViaPredefined(p)
    /\ trig[p].pc = "done"
    /\ FirstMatch(users, problems[p].type) # Null
    /\ problems[p].status = "solved"
    /\ ViaRegular(q)
    /\ problems[q].assignedTechnician # Null

\* the trigger's run on problem p ends in this step
TriggerRuns(p) == trig[p].pc = "fired" /\ trig'[p].pc = "done"

\* C8: the creation trigger changes a problem's assignee only when the
\* problem has none: a problem POST /problems created with a technician
\* still has that technician after the trigger has run.
C8_TriggerKeepsAssignee ==
  [][\A p \in DOMAIN problems :
       TriggerRuns(p) /\ problems[p].assignedTechnician # Null =>
         problems'[p].assignedTechnician = problems[p].assignedTechnician]_vars

\* a PUT /problems/:id with status solved on the existing problem p is
\* served in this step
Solves(p) ==
  /\ last'.kind = "put"
  /\ last'.pid = p
  /\ last'.status = "solved"
  /\ p \in DOMAIN problems

\* C9: PUT /problems/:id with status solved sets solvedAt to a timestamp,
\* and on a problem that is already solved it leaves solvedAt and status as
\* the first transition set them.
C9_SolvedIdempotent ==
  [][\A p \in ProblemIds :
       Solves(p) =>
         /\ problems'[p].status = "solved"
         /\ problems'[p].solvedAt # NoTime
         /\ problems[p].status = "solved" =>
              problems'[p].solvedAt = problems[p].solvedAt]_vars

\* the technician read or the user-management call of the PUT served in this
\* step fails
PeerFails == last'.kind = "put" /\ last'.peer \in {"readFailed", "callFailed"}

\* C10: when PUT /problems/:id sets status solved on an assigned problem and
\* the technician read or the user-management call fails, the problem keeps
\* status solved and its solvedAt, the request answers 200, and the
\* technician's record is left as it was.
C10_PeerFailureSwallowed ==
  [][PeerFails =>
       /\ last'.status = "solved"
       /\ last'.pid \in DOMAIN problems
       /\ problems[last'.pid].assignedTechnician = last'.sel
       /\ last'.sel # Null
       /\ last'.pid \in DOMAIN problems'
       /\ problems'[last'.pid].status = "solved"
       /\ problems'[last'.pid].solvedAt = now'
       /\ problems'[last'.pid].solvedAt # NoTime
       /\ resp'.code = 200
       /\ \A r \in Req : Free(r)'
       /\ users' = users]_vars

\* the call has just failed for a technician holding three problems, who
\* stays unavailable beside the solved problem
C10_Witness ==
  /\ last.kind = "put"
  /\ last.peer = "callFailed"
  /\ resp.code = 200
  /\ last.pid \in DOMAIN problems
  /\ problems[last.pid].status = "solved"
  /\ problems[last.pid].solvedAt # NoTime
  /\ ~users[last.sel].isAvailable
  /\ Count(users[last.sel]) = Threshold

\* the notification call of the POST /problems answered in this step failed
NotifyFails == last'.kind = "post" /\ last'.email = "failed"

\* C11: when the email notification call of POST /problems fails, the
\* request still answers 201 with the assigned technician, and neither the
\* created problem nor the technician update (allProblems, currentProblem,
\* isAvailable) is rolled back.
C11_NotifyFailureKeepsAssignment ==
  [][NotifyFails =>
       /\ resp'.code = 201
       /\ resp'.id = last'.pid
       /\ last'.sel \in Tech
       /\ resp'.assignedTo = last'.sel
       /\ problems' = problems
       /\ last'.pid \in DOMAIN problems'
       /\ users' = users
       /\ last'.pid \in users'[last'.sel].allProblems
       /\ users'[last'.sel].currentProblem = last'.pid]_vars

\* the notification has just failed for the electrical technician's third
\* problem, which stays assigned, and the technician stays unavailable
C11_Witness ==
  /\ last.kind = "post"
  /\ last.email = "failed"
  /\ resp.code = 201
  /\ resp.assignedTo = 3
  /\ last.pid \in users[3].allProblems
  /\ users[3].currentProblem = last.pid
  /\ Count(users[3]) = Threshold
  /\ ~users[3].isAvailable

\* the PUT served in this step set status solved on an assigned problem and
\* its user-management call succeeded
PeerSucceeds == last'.kind = "put" /\ last'.peer = "ok"

\* C12: whenever PUT /problems/:id moves a problem with an assigned, existing
\* technician to solved and the user-management call succeeds, the
\* technician ends with isAvailable = true and currentProblem = null,
\* whatever number of other problems it has, and is a candidate for the next
\* POST /problems of its speciality.
C12_SolvedReleasesTechnician ==
  [][PeerSucceeds =>
       LET t == last'.sel IN
       /\ last'.status = "solved"
       /\ t \in Tech
       /\ problems[last'.pid].assignedTechnician = t
       /\ users'[t].isAvailable = TRUE
       /\ users'[t].currentProblem = Null
       /\ users'[t].allProblems = users[t].allProblems
       /\ t \in Candidates(users', users'[t].speciality)]_vars

\* a technician holding three problems, two of them unsolved, has just been
\* released
C12_Witness ==
  /\ last.kind = "put"
  /\ last.peer = "ok"
  /\ users[last.sel].isAvailable
  /\ Count(users[last.sel]) = Threshold
  /\ Cardinality({ p \in DOMAIN problems :
                     /\ p \in users[last.sel].allProblems
                     /\ problems[p].assignedTechnician = last.sel
                     /\ problems[p].status # "solved" }) = 2

\* a PUT /problems/:id on an existing problem is served in this step
PutsExisting == last'.kind = "put" /\ last'.pid \in DOMAIN problems

\* C13: PUT /problems/:id enforces no transition legality: for every
\* existing problem and every pair of statuses (old, new), solved to waiting
\* and new = old included, the request succeeds and the problem's status
\* becomes the new status.
C13_AnyTransition ==
  [][PutsExisting =>
       /\ resp'.code = 200
       /\ last'.pid \in DOMAIN problems'
       /\ problems'[last'.pid].status = last'.status]_vars

\* a solved problem has just been put back to waiting
C13_Witness ==
  /\ last.kind = "put"
  /\ last.status = "waiting"
  /\ resp.code = 200
  /\ last.pid \in DOMAIN problems
  /\ problems[last.pid].status = "waiting"
  /\ problems[last.pid].solvedAt # NoTime

\* a DELETE /problems/:id is served in this step
Deletes == last'.kind = "delete"

\* C14: DELETE /problems/:id for an id that does not exist answers 200 and
\* leaves every problem and technician record unchanged; DELETE of an
\* existing problem removes only that problem record and changes no
\* technician record.
C14_DeleteRemovesOnlyProblem ==
  [][Deletes =>
       /\ resp'.code = 200
       /\ users' = users
       /\ DOMAIN problems' = DOMAIN problems \ {last'.pid}
       /\ \A p \in DOMAIN problems' : problems'[p] = problems[p]
       /\ last'.pid \notin DOMAIN problems => problems' = problems]_vars

\* an id the store never handed out has just been deleted beside a problem
\* that is assigned
C14_Witness ==
  /\ last.kind = "delete"
  /\ last.pid >= nextId
  /\ resp.code = 200
  /\ \E p \in DOMAIN problems :
       /\ problems[p].assignedTechnician \in Tech
       /\ p \in users[problems[p].assignedTechnician].allProblems

\* the technicians of a speciality, available or not
OfSpeciality(type) ==
  { t \in Tech : users[t].role = "technicien" /\ users[t].speciality = type }

\* C15: for a problem that is not predefined the creation trigger selects by
\* speciality only, ignoring isAvailable and workload: if a technician with
\* role technicien and the problem's speciality exists, it writes one such
\* technician to the problem's assignedTechnician and changes nothing else
\* (no technician record, not the problem's status); if none exists it
\* writes nothing.
C15_TriggerBySpecialityOnly ==
  [][\A p \in DOMAIN problems :
       TriggerRuns(p) /\ ~problems[p].isPredefined =>
         /\ users' = users
         /\ DOMAIN problems' = DOMAIN problems
         /\ \A q \in DOMAIN problems \ {p} : problems'[q] = problems[q]
         /\ problems'[p] = [problems[p] EXCEPT
                              !.assignedTechnician = problems'[p].assignedTechnician]
         /\ IF OfSpeciality(problems[p].type) # {}
            THEN problems'[p].assignedTechnician \in OfSpeciality(problems[p].type)
            ELSE problems' = problems]_vars

\* the trigger has written the electrical technician, who is unavailable
\* with three problems, to a problem POST /problems left unassigned
C15_Witness ==
  \E p \in DOMAIN problems :
    /\ trig[p].pc = "done"
    /\ problems[p].type = "electrical"
    /\ problems[p].assignedTechnician = 3
    /\ p \notin users[3].allProblems
    /\ Count(users[3]) = Threshold
    /\ ~users[3].isAvailable
    /\ problems[p].status = "waiting"

\* no request and no run of the trigger is in flight
Settled == Quiet /\ \A p \in ProblemIds : trig[p].pc # "fired"

\* C16: in every reachable state in which no request or trigger is in flight
\* and no store or collaborator call has failed, every existing problem
\* whose assignedTechnician is a technician T has its id in T's allProblems.
C16_AssigneeHoldsProblem ==
  Settled =>
    \A p \in DOMAIN problems :
      problems[p].assignedTechnician \in Tech =>
        p \in users[problems[p].assignedTechnician].allProblems

\* C17: no operation removes an id from a technician's allProblems: over any
\* sequence of creations, transitions to solved, deletions and trigger runs
\* each technician's allProblems count is non-decreasing, so the workload
\* POST /problems compares still counts problems that were solved or
\* deleted.
C17_AllProblemsOnlyGrows ==
  [][\A t \in Tech :
       /\ users[t].allProblems \subseteq users'[t].allProblems
       /\ Count(users'[t]) >= Count(users[t])]_vars

\* a request has just picked the second plumbing technician over the first,
\* whose only problem is solved or deleted
C17_Witness ==
  \E r \in Req :
    /\ req[r].pc = "queried"
    /\ req[r].type = "plumbing"
    /\ req[r].sel = 2
    /\ users[1].isAvailable
    /\ Count(users[1]) = 1
    /\ Count(users[2]) = 0
    /\ \A p \in users[1].allProblems :
         p \notin DOMAIN problems \/ problems[p].status = "solved"

\* C18: whenever the response of PUT /problems/:id carries
\* technicianUpdated = true, the technician's availability update was
\* requested and succeeded: the technician exists and the call to the
\* user-management service completed without error.
C18_TechnicianUpdatedIsTrue ==
  [][last'.kind = "put" /\ resp'.technicianUpdated =>
       /\ last'.sel \in Tech
       /\ last'.peer = "ok"]_vars

\* C19: in every reachable state, after any sequence of status transitions,
\* a problem has solvedAt set only if its current status is solved.
C19_SolvedAtOnlyIfSolved ==
  \A p \in DOMAIN problems :
    problems[p].solvedAt # NoTime => problems[p].status = "solved"

\* C20: in every reachable state every problem whose assignedTechnician is
\* non-null references a technician whose speciality equals the problem's
\* type, whether POST /problems or the creation trigger wrote it.
C20_AssigneeHasSpeciality ==
  \A p \in DOMAIN problems :
    problems[p].assignedTechnician # Null =>
      /\ problems[p].assignedTechnician \in Tech
      /\ users[problems[p].assignedTechnician].speciality = problems[p].type

\* one problem is with the technician POST /problems picked, another with
\* the technician the trigger wrote over the one picked, and a problem of a
\* speciality no technician has is with none
C20_Witness ==
  \E p, q, n \in DOMAIN problems :
    /\ trig[p].pc = "fired"
    /\ problems[p].assignedTechnician = 3
    /\ p \in users[3].allProblems
    /\ trig[q].pc = "done"
    /\ problems[q].assignedTechnician = 1
    /\ q \in users[2].allProblems
    /\ trig[n].pc = "done"
    /\ problems[n].type = "painting"
    /\ problems[n].assignedTechnician = Null
====
